---------------------------- MODULE Spec2Model ----------------------------
(***************************************************************************)
(* Query and pattern-detection engine of the market transactions explorer. *)
(*                                                                         *)
(*   data_utils.py  SQL implementation: fetch_symbols_by_index,            *)
(*                  fetch_symbols_by_concept, merge_symbol_sets,           *)
(*                  query_normal, query_five_day_yang                      *)
(*   app.py         pandas implementation: allowed_symbols_idx_cpt,        *)
(*                  five_day_yang_symbols, summary_for_yang, main          *)
(*                                                                         *)
(* The database tables are the state.  Every operation is one action that  *)
(* records its arguments in `call` and what it returned in `result` /      *)
(* `universe`.  Dates are day numbers, stock symbols are numeric codes     *)
(* (compared as the fixed-width code strings compare), amounts and change  *)
(* rates are integers.                                                     *)
(***************************************************************************)
EXTENDS Integers, Sequences, FiniteSets, TLC

VARIABLES
    transactions,       \* table transactions: one row per (symbol, date)
    stocks,             \* table stocks: rows (index, symbol)
    concept_names_em,   \* table concept_names_em: rows (concept_name, concept_symbol)
    concept_cons_em,    \* table concept_cons_em: rows (symbol, concept_symbol)
    call,               \* the last operation and its arguments
    result,             \* the rows the last query returned, in order
    universe,           \* the symbol set the last resolver call returned
    connected,          \* the last data_utils query opened a connection
    fetched             \* the last data_utils query ran its SQL statement

vars == <<transactions, stocks, concept_names_em, concept_cons_em,
          call, result, universe, connected, fetched>>

tables == <<transactions, stocks, concept_names_em, concept_cons_em>>

---------------------------------------------------------------------------
(* Bounds of the explored inputs *)

MaxDate == 7            \* dates are 1 .. MaxDate
MaxSurge == 3           \* the turnover spike falls on a date in 1 .. MaxSurge
HaltDate == 4           \* the date a symbol may have been suspended on

Symbols == {1, 2}
Dates == 1 .. MaxDate

Indices == {"SH", "SZ"}
IndexNames == Indices \cup {"XX"}          \* "XX" is in no table
ConceptNames == {"AI", "EV"}
ConceptNamesSel == ConceptNames \cup {"XX"}
ConceptSymbols == {"BK1", "BK2"}

---------------------------------------------------------------------------
(* Values *)

\* set[str] | None: None is the "no filter" value, a set is a concrete filter
None == [kind |-> "None", syms |-> {}]
SetOf(S) == [kind |-> "Set", syms |-> S]
Universes == {None} \cup {SetOf(S) : S \in SUBSET Symbols}

NoCall == [op |-> "none", start_dt |-> 0, end_dt |-> 0,
           symbols |-> None, indices |-> {}, concepts |-> {}]

Row(s, d, a, cr) ==
    [symbol |-> s, date |-> d, open |-> 100 + 10 * d + s, close |-> 10 * d + s,
     amount |-> a, change_rate |-> cr]

\* The histories explored: every symbol trades on every date except a
\* suspended (symbol, date) `halt`; turnover is 100 except on the spike
\* date `surge`, where it is `amt`; change_rate is -1 except on `low`, where
\* it is -2.  open and close differ from record to record.
History(halt, surge, amt, low) ==
    { Row(p[1], p[2],
          IF p[2] = surge THEN amt ELSE 100,
          IF p = low THEN -2 ELSE -1)
      : p \in (Symbols \X Dates) \ {halt} }

Histories ==
    { History(halt, surge, amt, low) :
        halt \in {<<0, 0>>} \cup (Symbols \X {HaltDate}),
        surge \in 1 .. MaxSurge,
        amt \in {124, 125},
        low \in {<<0, 0>>} \cup (Symbols \X Dates) }

SetMin(S) == CHOOSE x \in S : \A y \in S : x <= y
SetMax(S) == CHOOSE x \in S : \A y \in S : x >= y

\* all orders in which the elements of a set can be enumerated
RECURSIVE Orders(_)
Orders(S) ==
    IF S = {} THEN {<< >>}
    ELSE UNION { { <<x>> \o t : t \in Orders(S \ {x}) } : x \in S }

Range(seq) == { seq[i] : i \in 1 .. Len(seq) }

---------------------------------------------------------------------------
(* data_utils.py *)

fetch_symbols_by_index(stk, indices) ==
    IF indices = {} THEN None
    ELSE SetOf({ r.symbol : r \in { x \in stk : x.index \in indices } })

\* concept_cons_em cc JOIN concept_names_em cn ON cc.concept_symbol = cn.concept_symbol
fetch_symbols_by_concept(cnm, ccs, concepts) ==
    IF concepts = {} THEN None
    ELSE SetOf({ j[1].symbol :
                 j \in { p \in ccs \X cnm :
                           /\ p[1].concept_symbol = p[2].concept_symbol
                           /\ p[2].concept_name \in concepts } })

\* merge_symbol_sets taking the union of two concrete sets
merge_symbol_sets_union(set_idx, set_cpt) ==
    IF set_idx = None /\ set_cpt = None THEN None
    ELSE IF set_idx = None THEN set_cpt
    ELSE IF set_cpt = None THEN set_idx
    ELSE SetOf(set_idx.syms \cup set_cpt.syms)

merge_symbol_sets(set_idx, set_cpt) ==
    IF set_idx = None /\ set_cpt = None THEN None
    ELSE IF set_idx = None THEN set_cpt
    ELSE IF set_cpt = None THEN set_idx
    ELSE SetOf(set_idx.syms \cap set_cpt.syms)

\* the universe of a selection: the two fetches, merged
resolve(stk, cnm, ccs, indices, concepts) ==
    merge_symbol_sets(fetch_symbols_by_index(stk, indices),
                      fetch_symbols_by_concept(cnm, ccs, concepts))

\* ORDER BY date, symbol
RECURSIVE OrderByDateSymbol(_)
OrderByDateSymbol(rows) ==
    IF rows = {} THEN << >>
    ELSE LET first == CHOOSE r \in rows : \A q \in rows :
                          \/ r.date < q.date
                          \/ r.date = q.date /\ r.symbol <= q.symbol
         IN  <<first>> \o OrderByDateSymbol(rows \ {first})

\* ORDER BY symbol
RECURSIVE OrderBySymbol(_)
OrderBySymbol(rows) ==
    IF rows = {} THEN << >>
    ELSE LET first == CHOOSE r \in rows : \A q \in rows : r.symbol <= q.symbol
         IN  <<first>> \o OrderBySymbol(rows \ {first})

\* symbols is None: no symbol clause; otherwise " AND symbol IN (...)"
SymbolClause(symbols, s) == symbols = None \/ s \in symbols.syms

\* the early return taken on a concrete empty set
EmptyFilter(symbols) == symbols # None /\ symbols.syms = {}

\* query_normal with the end date excluded
query_normal_open_end(tx, start_dt, end_dt, symbols) ==
    IF EmptyFilter(symbols) THEN << >>
    ELSE OrderByDateSymbol(
           { r \in tx : /\ start_dt <= r.date /\ r.date < end_dt
                        /\ SymbolClause(symbols, r.symbol) })

query_normal(tx, start_dt, end_dt, symbols) ==
    IF EmptyFilter(symbols) THEN << >>
    ELSE OrderByDateSymbol(
           { r \in tx : /\ start_dt <= r.date /\ r.date <= end_dt
                        /\ SymbolClause(symbols, r.symbol) })

\* last6_desc leaving out the cutoff date itself (date < ?)
last6_desc_before(tx, end_dt, symbols) ==
    LET base == { r \in tx : r.date < end_dt /\ SymbolClause(symbols, r.symbol) }
    IN  { [row |-> r,
           rn_desc |-> 1 + Cardinality({ q \in base : q.symbol = r.symbol
                                                      /\ q.date > r.date })]
          : r \in base }

\* CTE last6_desc: rn_desc = ROW_NUMBER() OVER (PARTITION BY symbol ORDER BY date DESC)
last6_desc(tx, end_dt, symbols) ==
    LET base == { r \in tx : r.date <= end_dt /\ SymbolClause(symbols, r.symbol) }
    IN  { [row |-> r,
           rn_desc |-> 1 + Cardinality({ q \in base : q.symbol = r.symbol
                                                      /\ q.date > r.date })]
          : r \in base }

\* CTE last6: rn = 7 - rn_desc of the rows with rn_desc <= 6
last6(tx, end_dt, symbols) ==
    { [row |-> x.row, rn |-> 7 - x.rn_desc]
      : x \in { y \in last6_desc(tx, end_dt, symbols) : y.rn_desc <= 6 } }

\* CTE pattern_syms.  a >= 1.25 * b is computed as 4 * a >= 5 * b.
pattern_syms(l6) ==
    { s \in { x.row.symbol : x \in l6 } :
        LET g == { x \in l6 : x.row.symbol = s }
        IN  /\ Cardinality(g) = 6
            /\ 4 * SetMax({ x.row.amount : x \in { y \in g : y.rn = 2 } })
                 >= 5 * SetMax({ x.row.amount : x \in { y \in g : y.rn = 1 } })
            /\ SetMin({ x.row.change_rate : x \in { y \in g : y.rn >= 3 } }) >= -1 }

\* MaxAt reading the row numbered k from the newest (rn_desc = k) instead of rn = k
MaxAt_rn_desc(g, k, col) == SetMax({ x.row[col] : x \in { y \in g : 7 - y.rn = k } })

\* MAX(CASE WHEN rn = k THEN col END) over one symbol's group
MaxAt(g, k, col) == SetMax({ x.row[col] : x \in { y \in g : y.rn = k } })

\* CTE summary
summary(l6) ==
    { LET g == { x \in l6 : x.row.symbol = s }
      IN  [date_start |-> SetMin({ x.row.date : x \in g }),
           date_end   |-> SetMax({ x.row.date : x \in g }),
           symbol     |-> s,
           day5close  |-> MaxAt(g, 6, "close"),
           day5open   |-> MaxAt(g, 6, "open"),
           day4close  |-> MaxAt(g, 5, "close"),
           day3close  |-> MaxAt(g, 4, "close"),
           day2close  |-> MaxAt(g, 3, "close"),
           day1close  |-> MaxAt(g, 2, "close"),
           day0close  |-> MaxAt(g, 1, "close")]
      : s \in pattern_syms(l6) }

query_five_day_yang(tx, end_dt, symbols) ==
    IF EmptyFilter(symbols) THEN << >>
    ELSE OrderBySymbol(summary(last6(tx, end_dt, symbols)))

---------------------------------------------------------------------------
(* Operations of data_utils.py.  Calls are synchronous: a query is issued  *)
(* when no call is in progress, and Return hands its result to the caller. *)

Idle == call.op = "none"

Return ==
    /\ ~Idle
    /\ call' = NoCall
    /\ result' = << >>
    /\ universe' = None
    /\ connected' = FALSE
    /\ fetched' = FALSE
    /\ UNCHANGED tables

QueryNormal ==
    \E start_dt \in Dates, end_dt \in Dates, symbols \in Universes :
        /\ Idle
        /\ call' = [NoCall EXCEPT !.op = "query_normal", !.start_dt = start_dt,
                                  !.end_dt = end_dt, !.symbols = symbols]
        /\ connected' = TRUE
        /\ fetched' = ~EmptyFilter(symbols)
        /\ result' = query_normal(transactions, start_dt, end_dt, symbols)
        /\ UNCHANGED <<tables, universe>>

QueryFiveDayYang ==
    \E end_dt \in Dates, symbols \in Universes :
        /\ Idle
        /\ call' = [NoCall EXCEPT !.op = "query_five_day_yang",
                                  !.end_dt = end_dt, !.symbols = symbols]
        /\ connected' = TRUE
        /\ fetched' = ~EmptyFilter(symbols)
        /\ result' = query_five_day_yang(transactions, end_dt, symbols)
        /\ UNCHANGED <<tables, universe>>

ResolveUniverse ==
    \E indices \in SUBSET IndexNames, concepts \in SUBSET ConceptNamesSel :
        /\ Idle
        /\ call' = [NoCall EXCEPT !.op = "resolve", !.indices = indices,
                                  !.concepts = concepts]
        /\ universe' = resolve(stocks, concept_names_em, concept_cons_em,
                                indices, concepts)
        /\ UNCHANGED <<tables, result, connected, fetched>>

---------------------------------------------------------------------------
(* app.py *)

allowed_symbols_idx_cpt(stocks_df, c_names_df, c_cons_df, sel_indices, sel_concepts) ==
    LET all_syms == { r.symbol : r \in stocks_df }
        sym_by_idx ==
            IF sel_indices # {}
            THEN { r.symbol : r \in { x \in stocks_df : x.index \in sel_indices } }
            ELSE all_syms
        sel_c_symbols ==
            { r.concept_symbol : r \in { x \in c_names_df : x.concept_name \in sel_concepts } }
        sym_by_cpt ==
            IF sel_concepts # {}
            THEN { r.symbol : r \in { x \in c_cons_df : x.concept_symbol \in sel_c_symbols } }
            ELSE all_syms
    IN  sym_by_idx \cap sym_by_cpt

\* g.sort_values("date")
RECURSIVE SortByDate(_)
SortByDate(g) ==
    IF g = {} THEN << >>
    ELSE LET first == CHOOSE r \in g : \A q \in g : r.date <= q.date
         IN  <<first>> \o SortByDate(g \ {first})

\* .iloc[-6:] / .tail(6), re-indexed from the first kept row
Tail6(seq) == SubSeq(seq, IF Len(seq) > 6 THEN Len(seq) - 5 ELSE 1, Len(seq))

\* qualifies(g) of five_day_yang_symbols; last6.loc[k] is l6[k + 1]
qualifies(g) ==
    IF Cardinality(g) < 6 THEN FALSE
    ELSE LET l6 == Tail6(SortByDate(g))
             cond_amt == 4 * l6[2].amount >= 5 * l6[1].amount
             cond_cr  == \A i \in 2 .. Len(l6) : l6[i].change_rate >= -1
         IN  cond_amt /\ cond_cr

five_day_yang_symbols(tx_df, end_dt) ==
    LET tx_cut == { r \in tx_df : r.date <= end_dt }
    IN  { s \in { r.symbol : r \in tx_cut } :
            qualifies({ r \in tx_cut : r.symbol = s }) }

\* summary_for_yang; `order` is the order in which the set `symbols` is iterated
RECURSIVE summary_for_yang(_, _, _)
summary_for_yang(tx_df, order, end_dt) ==
    IF order = << >> THEN << >>
    ELSE LET sym == Head(order)
             g == Tail6(SortByDate({ r \in tx_df : r.symbol = sym /\ r.date <= end_dt }))
             rest == summary_for_yang(tx_df, Tail(order), end_dt)
         IN  IF Len(g) < 6 THEN rest
             ELSE << [date_start |-> g[1].date,
                      date_end   |-> g[6].date,
                      symbol     |-> sym,
                      day5close  |-> g[6].close,
                      day5open   |-> g[6].open,
                      day4close  |-> g[5].close,
                      day3close  |-> g[4].close,
                      day2close  |-> g[3].close,
                      day1close  |-> g[2].close,
                      day0close  |-> g[1].close] >> \o rest

\* sort_values(["date", "symbol"])
RECURSIVE OrderByFrame(_)
OrderByFrame(rows) ==
    IF rows = {} THEN << >>
    ELSE LET first == CHOOSE r \in rows : \A q \in rows :
                          \/ r.date < q.date
                          \/ r.date = q.date /\ r.symbol <= q.symbol
         IN  <<first>> \o OrderByFrame(rows \ {first})

\* tx_df.loc[tx_mask].sort_values(["date", "symbol"])
tx_filtered(tx_df, d_start, d_end, sym_allowed) ==
    OrderByFrame({ r \in tx_df : /\ r.date >= d_start
                                 /\ r.date <= d_end
                                 /\ r.symbol \in sym_allowed })

---------------------------------------------------------------------------
(* Operations of app.py: the two modes of main, from the allowed symbol    *)
(* set on.  st.stop() ends the run with nothing displayed.                 *)

AllowedSymbols ==
    \E sel_indices \in SUBSET IndexNames, sel_concepts \in SUBSET ConceptNamesSel :
        /\ Idle
        /\ call' = [NoCall EXCEPT !.op = "allowed_symbols_idx_cpt",
                                  !.indices = sel_indices, !.concepts = sel_concepts]
        /\ universe' = SetOf(allowed_symbols_idx_cpt(stocks, concept_names_em,
                                 concept_cons_em, sel_indices, sel_concepts))
        /\ UNCHANGED <<tables, result, connected, fetched>>

MainNormal ==
    \E d_start \in Dates, d_end \in Dates, sym_allowed \in SUBSET Symbols :
        /\ Idle
        /\ call' = [NoCall EXCEPT !.op = "main_normal", !.start_dt = d_start,
                                  !.end_dt = d_end, !.symbols = SetOf(sym_allowed)]
        /\ result' = IF d_start > d_end THEN << >>
                     ELSE tx_filtered(transactions, d_start, d_end, sym_allowed)
        /\ UNCHANGED <<tables, universe, connected, fetched>>

MainYang ==
    \E end_date \in Dates, base_allowed \in SUBSET Symbols :
        LET final_syms == base_allowed \cap five_day_yang_symbols(transactions, end_date)
        IN  /\ Idle
            /\ call' = [NoCall EXCEPT !.op = "main_yang", !.end_dt = end_date,
                                      !.symbols = SetOf(base_allowed)]
            /\ \E order \in Orders(final_syms) :
                   result' = summary_for_yang(transactions, order, end_date)
            /\ UNCHANGED <<tables, universe, connected, fetched>>

---------------------------------------------------------------------------
(* Specification of the queries over a transaction history *)

Init ==
    /\ transactions \in Histories
    /\ stocks = {}
    /\ concept_names_em = {}
    /\ concept_cons_em = {}
    /\ call = NoCall
    /\ result = << >>
    /\ universe = None
    /\ connected = FALSE
    /\ fetched = FALSE

Next ==
    \/ QueryNormal
    \/ QueryFiveDayYang
    \/ MainNormal
    \/ MainYang
    \/ Return

Spec == Init /\ [][Next]_vars

---------------------------------------------------------------------------
(* Specification of the symbol universe resolvers over the membership      *)
(* tables                                                                  *)

StockRows == { [index |-> p[1], symbol |-> p[2]] : p \in Indices \X Symbols }
ConsRows == { [symbol |-> p[1], concept_symbol |-> p[2]] : p \in Symbols \X ConceptSymbols }
NameRows == { [concept_name |-> "AI", concept_symbol |-> "BK1"],
              [concept_name |-> "EV", concept_symbol |-> "BK2"] }

InitUniverse ==
    /\ transactions = History(<<0, 0>>, MaxSurge, 125, <<0, 0>>)
    /\ stocks \in SUBSET StockRows
    /\ concept_names_em = NameRows
    /\ concept_cons_em \in SUBSET ConsRows
    /\ call = NoCall
    /\ result = << >>
    /\ universe = None
    /\ connected = FALSE
    /\ fetched = FALSE

NextUniverse ==
    \/ ResolveUniverse
    \/ AllowedSymbols
    \/ Return

SpecUniverse == InitUniverse /\ [][NextUniverse]_vars

---------------------------------------------------------------------------
(* Vocabulary of the properties, stated over the tables independently of   *)
(* the two implementations                                                 *)

YangOps == {"query_five_day_yang", "main_yang"}
RangeOps == {"query_normal", "main_normal"}

\* the universe admits symbol s
Admits(symbols, s) == symbols = None \/ s \in symbols.syms

\* the records of s dated on or before the cutoff
Eligible(tx, s, cutoff) == { r \in tx : r.symbol = s /\ r.date <= cutoff }

\* the 6 most recent of them
Window(tx, s, cutoff) ==
    { r \in Eligible(tx, s, cutoff) :
        Cardinality({ q \in Eligible(tx, s, cutoff) : q.date > r.date }) < 6 }

\* day k of the window, day 0 the oldest and day 5 the newest
Day(tx, s, cutoff, k) ==
    CHOOSE r \in Window(tx, s, cutoff) :
        Cardinality({ q \in Window(tx, s, cutoff) : q.date > r.date }) = 5 - k

HasWindow(tx, s, cutoff) == Cardinality(Eligible(tx, s, cutoff)) >= 6

\* the five-day-yang predicate of the specification
Surge(tx, s, cutoff) ==
    4 * Day(tx, s, cutoff, 1).amount >= 5 * Day(tx, s, cutoff, 0).amount

NoPullback(tx, s, cutoff) ==
    \A k \in 1 .. 5 : Day(tx, s, cutoff, k).change_rate >= -1

Qualifying(tx, s, cutoff) ==
    /\ HasWindow(tx, s, cutoff)
    /\ Surge(tx, s, cutoff)
    /\ NoPullback(tx, s, cutoff)

ResultSymbols == { result[i].symbol : i \in 1 .. Len(result) }

\* the history with amount and change_rate of record r replaced
Revise(tx, r, a, cr) ==
    (tx \ {r}) \cup { [r EXCEPT !.amount = a, !.change_rate = cr] }

\* the history in which s has no other records than its 6 most recent eligible
OnlyWindow(tx, s, cutoff) ==
    { r \in tx : r.symbol # s } \cup Window(tx, s, cutoff)

AltAmounts == {100, 125, 200}
AltRates == {-2, -1, 0}

\* the symbols a pattern run with the arguments of `call` reports over tx
Reported(tx) ==
    IF call.op = "query_five_day_yang"
    THEN LET rows == query_five_day_yang(tx, call.end_dt, call.symbols)
         IN  { rows[i].symbol : i \in 1 .. Len(rows) }
    ELSE call.symbols.syms \cap five_day_yang_symbols(tx, call.end_dt)

---------------------------------------------------------------------------
(* C1  query_five_day_yang returns a row for symbol s if and only if s is  *)
(* admitted by the universe, has at least 6 records dated on or before the *)
(* cutoff, and over the 6 most recent day1.amount >= 1.25 * day0.amount    *)
(* and change_rate >= -1 on each of day1 .. day5.                          *)
C1_RowIffQualifying ==
    call.op = "query_five_day_yang" =>
        \A s \in Symbols :
            s \in ResultSymbols <=>
                /\ Admits(call.symbols, s)
                /\ Qualifying(transactions, s, call.end_dt)

(* C2  Window size boundary: a symbol with 5 or fewer eligible records is  *)
(* never reported; a symbol with 6 or more is reported exactly when it is  *)
(* reported over its 6 most recent eligible records alone; and the amount  *)
(* and change_rate of a record older than those, or dated after the        *)
(* cutoff, never change whether the symbol is reported (both               *)
(* implementations).                                                       *)
C2_WindowBoundary ==
    call.op \in YangOps =>
        \A s \in Symbols :
            /\ ~HasWindow(transactions, s, call.end_dt) => s \notin ResultSymbols
            /\ s \in Reported(OnlyWindow(transactions, s, call.end_dt))
                  <=> s \in ResultSymbols
            /\ \A r \in { q \in transactions : q.symbol = s }
                        \ Window(transactions, s, call.end_dt) :
                 \A a \in AltAmounts, cr \in AltRates :
                    s \in Reported(Revise(transactions, r, a, cr))
                        <=> s \in ResultSymbols

\* a symbol with 7 eligible records is reported, on its 6 most recent
C2_Witness ==
    /\ call.op = "query_five_day_yang"
    /\ \E s \in ResultSymbols :
          Cardinality(Eligible(transactions, s, call.end_dt)) = 7

(* C3  Both thresholds are inclusive (both implementations): with         *)
(* day0.amount = 100, day1.amount = 125 meets the turnover condition and   *)
(* any smaller day1.amount fails it; change_rate = -1 on any of day1..day5 *)
(* meets the pullback condition and a change_rate below -1 on any of those *)
(* days keeps the symbol out of the result.                                *)
C3_ThresholdsInclusive ==
    call.op \in YangOps =>
        \A s \in Symbols :
            (Admits(call.symbols, s) /\ HasWindow(transactions, s, call.end_dt)) =>
                LET d0 == Day(transactions, s, call.end_dt, 0)
                    d1 == Day(transactions, s, call.end_dt, 1)
                    rates == { Day(transactions, s, call.end_dt, k).change_rate
                               : k \in 1 .. 5 }
                IN  /\ (d0.amount = 100 /\ d1.amount = 125 /\ \A x \in rates : x >= -1)
                           => s \in ResultSymbols
                    /\ (d0.amount = 100 /\ d1.amount < 125) => s \notin ResultSymbols
                    /\ (\E x \in rates : x < -1) => s \notin ResultSymbols

(* C6  Empty short-circuit: on the concrete empty universe query_normal    *)
(* and query_five_day_yang return an empty result without opening a        *)
(* connection and without issuing a fetch.                                 *)
C6_EmptyShortCircuit ==
    (call.op \in {"query_normal", "query_five_day_yang"} /\ call.symbols = SetOf({})) =>
        /\ result = << >>
        /\ ~connected
        /\ ~fetched

(* C7  Range query exactness (both implementations): for start <= end the  *)
(* result holds exactly the records with start <= date <= end of the       *)
(* symbols the universe admits, each once; records dated start or end are  *)
(* in it, records dated one day outside are not.                           *)
C7_RangeExact ==
    (call.op \in RangeOps /\ call.start_dt <= call.end_dt) =>
        /\ Range(result) = { r \in transactions :
                                /\ call.start_dt <= r.date
                                /\ r.date <= call.end_dt
                                /\ Admits(call.symbols, r.symbol) }
        /\ \A i, j \in 1 .. Len(result) : result[i] = result[j] => i = j
        /\ \A r \in transactions :
              /\ (Admits(call.symbols, r.symbol) /\ r.date \in {call.start_dt, call.end_dt})
                    => r \in Range(result)
              /\ r.date \in {call.start_dt - 1, call.end_dt + 1} => r \notin Range(result)

\* an unrestricted range query that keeps both boundary dates and leaves out
\* the days next to them
C7_Witness ==
    /\ call.op = "query_normal"
    /\ call.symbols = None
    /\ call.start_dt < call.end_dt
    /\ \A s \in Symbols : \E i, j \in 1 .. Len(result) :
          /\ result[i].symbol = s /\ result[i].date = call.start_dt
          /\ result[j].symbol = s /\ result[j].date = call.end_dt
    /\ \E r, q \in transactions : r.date = call.start_dt - 1 /\ q.date = call.end_dt + 1

(* C8  Result ordering: every range result is sorted ascending by          *)
(* (date, symbol) and every pattern result ascending by symbol, in         *)
(* data_utils.py and in app.py alike.                                      *)
C8_ResultsSorted ==
    /\ call.op \in RangeOps =>
          \A i, j \in 1 .. Len(result) :
              i < j => \/ result[i].date < result[j].date
                       \/ /\ result[i].date = result[j].date
                          /\ result[i].symbol <= result[j].symbol
    /\ call.op \in YangOps =>
          \A i, j \in 1 .. Len(result) : i < j => result[i].symbol <= result[j].symbol

(* C9  Summary projection (both implementations): no symbol has two rows,  *)
(* every admitted qualifying symbol has a row, and each row is read off    *)
(* the 6 most recent eligible records of its symbol: date_start is day0's  *)
(* date, date_end day5's date, date_start < date_end <= cutoff, date_end   *)
(* is the cutoff when the symbol traded on it, 'day 5 open' is day5.open   *)
(* and 'day k close' is dayk.close.                                        *)
C9_SummaryProjection ==
    call.op \in YangOps =>
        /\ \A i, j \in 1 .. Len(result) : result[i].symbol = result[j].symbol => i = j
        /\ \A s \in Symbols :
              (Admits(call.symbols, s) /\ Qualifying(transactions, s, call.end_dt))
                  => s \in ResultSymbols
        /\ \A i \in 1 .. Len(result) :
              LET row == result[i]
                  D(k) == Day(transactions, row.symbol, call.end_dt, k)
              IN  /\ HasWindow(transactions, row.symbol, call.end_dt)
                  /\ row.date_start = D(0).date
                  /\ row.date_end = D(5).date
                  /\ row.date_start < row.date_end
                  /\ row.date_end <= call.end_dt
                  /\ (\E r \in transactions : r.symbol = row.symbol /\ r.date = call.end_dt)
                        => row.date_end = call.end_dt
                  /\ row.day5open = D(5).open
                  /\ row.day5close = D(5).close
                  /\ row.day4close = D(4).close
                  /\ row.day3close = D(3).close
                  /\ row.day2close = D(2).close
                  /\ row.day1close = D(1).close
                  /\ row.day0close = D(0).close

\* a row whose window spans a suspended date
C9_Witness ==
    /\ call.op = "query_five_day_yang"
    /\ \E i \in 1 .. Len(result) : result[i].date_end - result[i].date_start > 5

(* C10  The two pattern detectors agree: on a concrete universe U the      *)
(* symbols query_five_day_yang(cutoff, U) returns are those of             *)
(* U \cap five_day_yang_symbols(history, cutoff).                          *)
C10_DetectorsAgree ==
    (call.op = "query_five_day_yang" /\ call.symbols # None) =>
        ResultSymbols = call.symbols.syms
                            \cap five_day_yang_symbols(transactions, call.end_dt)

---------------------------------------------------------------------------
(* Properties of the universe resolvers, under SpecUniverse *)

\* the symbols that belong to one of the indices
IndexMembers(indices) ==
    { s \in Symbols : \E i \in indices : [index |-> i, symbol |-> s] \in stocks }

\* the symbols that belong to one of the named concepts
ConceptMembers(concepts) ==
    { s \in Symbols : \E n \in concept_names_em :
        /\ n.concept_name \in concepts
        /\ [symbol |-> s, concept_symbol |-> n.concept_symbol] \in concept_cons_em }

\* intersection of universes, the unrestricted universe being its identity
Meet(u, v) ==
    CASE u.kind = "None" -> v
      [] v.kind = "None" -> u
      [] OTHER -> SetOf(u.syms \cap v.syms)

(* C4  Universe intersection law: resolve(I, C) is the intersection of     *)
(* resolve(I, none) and resolve(none, C), the unrestricted value being the *)
(* identity; resolve(none, none) is the unrestricted value; a non-empty    *)
(* selection yields a concrete set, the empty one when it matches no       *)
(* symbol.                                                                 *)
C4_IntersectionLaw ==
    call.op = "resolve" =>
        LET byIndex == resolve(stocks, concept_names_em, concept_cons_em,
                               call.indices, {})
            byConcept == resolve(stocks, concept_names_em, concept_cons_em,
                                 {}, call.concepts)
        IN  /\ universe = Meet(byIndex, byConcept)
            /\ (call.indices = {} /\ call.concepts = {}) <=> universe = None
            /\ call.indices # {} => byIndex = SetOf(IndexMembers(call.indices))
            /\ call.concepts # {} => byConcept = SetOf(ConceptMembers(call.concepts))
            /\ (call.indices # {} /\ IndexMembers(call.indices) = {})
                  => universe = SetOf({})
            /\ (call.concepts # {} /\ ConceptMembers(call.concepts) = {})
                  => universe = SetOf({})

\* both dimensions selected, the result non-empty and smaller than the
\* index dimension alone
C4_Witness ==
    /\ call.op = "resolve"
    /\ call.indices # {}
    /\ call.concepts # {}
    /\ universe.syms # {}
    /\ universe.syms # IndexMembers(call.indices)

(* C5  In allowed_symbols_idx_cpt an empty selection imposes no            *)
(* restriction: with no index selected the result is the concept           *)
(* dimension's symbol set unchanged (and symmetrically), and with nothing  *)
(* selected every symbol that has transaction records is admitted, also    *)
(* one without a row in the index-membership table.                        *)
C5_EmptySelectionUnrestricted ==
    call.op = "allowed_symbols_idx_cpt" =>
        /\ (call.indices = {} /\ call.concepts # {})
              => universe.syms = ConceptMembers(call.concepts)
        /\ (call.indices # {} /\ call.concepts = {})
              => universe.syms = IndexMembers(call.indices)
        /\ (call.indices = {} /\ call.concepts = {})
              => \A r \in transactions : r.symbol \in universe.syms

===========================================================================
